---- MODULE Spec2Model ----
(***************************************************************************)
(* A model of the iqdb core: the in-memory inverted index (bucket_set),    *)
(* the image-info table (m_info), the image counter and the SQLite store   *)
(* behind IQDB::addImage, IQDB::removeImage, IQDB::loadDatabase and        *)
(* IQDB::queryFromSignature (src/src/imgdb.cpp, src/src/sqlite_db.cpp).    *)
(***************************************************************************)
EXTENDS Integers, Sequences, FiniteSets, TLC

(***************************************************************************)
(* Bounds.  The program has NUM_COEFS = 40 coefficients per colour plane,  *)
(* coefficient positions 1..16383 and a 24 bit float mantissa; the model   *)
(* keeps the shapes and scales the sizes down.                             *)
(***************************************************************************)
NumCoefs == 2

MaxCoef == 3

MaxAvgl == 1

MaxImgCount == 4

MaxRes == 2

ScoreMantissa == 2

(* lumin_native holds Score v[3]: one DC average per colour plane.         *)
NumColors == 3

(* postId is an opaque std::string (types.h:8).                            *)
Ids == {"a", "b"}

Colors == 0 .. (NumColors - 1)

CoefIdx == 0 .. (NumCoefs - 1)

(* The worker threads of the httplib server that take requests.           *)
Threads == {"t1", "t2", "t3"}

VARIABLES imgbuckets, m_info, img_count, storage, V, call,
          th, mutex_, srv, sigterm, sql_mutex_

(* The worker threads, the core lock and the life of http_server.          *)
svars == <<th, mutex_, srv, sigterm, sql_mutex_>>

vars == <<imgbuckets, m_info, img_count, storage, V, call,
          th, mutex_, srv, sigterm, sql_mutex_>>

----------------------------------------------------------------------------
(* Helpers.                                                                *)

abs(x) == IF x < 0 THEN -x ELSE x

RECURSIVE Pow2(_)
Pow2(n) == IF n <= 0 THEN 1 ELSE 2 * Pow2(n - 1)

RECURSIVE Ilog2(_)
Ilog2(d) == IF d <= 1 THEN 0 ELSE 1 + Ilog2(d \div 2)

(* static_cast<Score>(double): Score is float, so the value is rounded to  *)
(* the nearest value with a ScoreMantissa-bit significand, ties to even.   *)
(* DC averages are modelled as naturals; small ones are exact.             *)
ToScore(d) ==
    LET e    == Ilog2(d)
        step == IF e >= ScoreMantissa THEN Pow2(e - ScoreMantissa + 1) ELSE 1
        q    == d \div step
        r    == d % step
    IN  IF 2 * r < step THEN q * step
        ELSE IF 2 * r > step THEN (q + 1) * step
        ELSE IF q % 2 = 0 THEN q * step ELSE (q + 1) * step

RECURSIVE SortedSeq(_)
SortedSeq(S) ==
    IF S = {} THEN <<>>
    ELSE LET m == CHOOSE x \in S : \A y \in S : x <= y
         IN  <<m>> \o SortedSeq(S \ {m})

Range(f) == { f[x] : x \in DOMAIN f }

RECURSIVE Reverse(_)
Reverse(s) == IF s = <<>> THEN <<>> ELSE Reverse(Tail(s)) \o <<Head(s)>>

----------------------------------------------------------------------------
(* Signatures.  A HaarSignature is avglf[3] (doubles) and sig[3][NUM_COEFS]*)
(* (signed positions, pairwise distinct in absolute value per plane).      *)
(* The inputs of the model are a sample of the valid signatures: one per   *)
(* DC level y and per window of NumCoefs consecutive positions (windows    *)
(* overlap, so two signatures may share some buckets and not others); the  *)
(* chrominance planes take the positions with a sign that depends on the   *)
(* plane and on y, so that both sign halves of the bucket array are used.  *)

Planes == { w .. (w + NumCoefs - 1) : w \in 1 .. (MaxCoef - NumCoefs + 1) }

MkSig(y, S) ==
    LET p == SortedSeq(S)
    IN  [ avglf |-> [c \in Colors |-> y + 2 * c],
          sig   |-> [c \in Colors |-> [i \in CoefIdx |->
                        IF c = 0 THEN p[i + 1]
                        ELSE IF c = 1 THEN (IF y % 2 = 0 THEN -p[i + 1] ELSE p[i + 1])
                        ELSE (IF i % 2 = 0 THEN p[i + 1] ELSE -p[i + 1])]] ]

SigPool == { MkSig(y, S) : y \in 0 .. MaxAvgl, S \in Planes }

(* HaarSignature::num_colors(): the declaration is not part of the sources *)
(* at hand; the specification has every image in all three planes.         *)
num_colors(sig) == NumColors

----------------------------------------------------------------------------
(* bucket_set: buckets[color][sign][abs(coef)], each a vector of ids.      *)

bucket_set_new ==
    [c \in Colors |-> [s \in 0 .. 1 |-> [a \in 0 .. MaxCoef |-> <<>>]]]

(* bucket_set::at: the coordinates of the bucket of (color, coef).         *)
bucket_set_at(color, coef) ==
    LET sign == IF coef < 0 THEN 1 ELSE 0
    IN  <<color, sign, abs(coef)>>

(* bucket_set::eachBucket: the buckets of a signature in visiting order.   *)
eachBucket(sig) ==
    [k \in 1 .. (num_colors(sig) * NumCoefs) |->
        LET c == (k - 1) \div NumCoefs
            i == (k - 1) % NumCoefs
        IN  bucket_set_at(c, sig.sig[c][i])]

RECURSIVE PushBackAll(_, _, _)
PushBackAll(bs, path, iqdb_id) ==
    IF path = <<>> THEN bs
    ELSE LET b == Head(path)
         IN  PushBackAll([bs EXCEPT ![b[1]][b[2]][b[3]] = Append(@, iqdb_id)],
                         Tail(path), iqdb_id)

RECURSIVE EraseAll(_, _, _)
EraseAll(bs, path, iqdb_id) ==
    IF path = <<>> THEN bs
    ELSE LET b == Head(path)
         IN  EraseAll([bs EXCEPT ![b[1]][b[2]][b[3]] =
                                 SelectSeq(@, LAMBDA x : x # iqdb_id)],
                      Tail(path), iqdb_id)

(* bucket_set::add: push_back in every bucket of the signature.            *)
bucket_set_add(bs, sig, iqdb_id) == PushBackAll(bs, eachBucket(sig), iqdb_id)

(* Variant: the id is erased from the first bucket of the signature only.  *)
bucket_set_remove_firstOnly(bs, sig, iqdb_id) ==
    EraseAll(bs, <<eachBucket(sig)[1]>>, iqdb_id)

(* bucket_set::remove: erase-remove in every bucket of the signature.      *)
bucket_set_remove(bs, sig, iqdb_id) == EraseAll(bs, eachBucket(sig), iqdb_id)

----------------------------------------------------------------------------
(* SqliteDB: the images table, as the sequence of its rows in rowid order. *)

(* std::optional<Image>: the empty sequence or a sequence of one row.      *)
NullOpt == <<>>

(* Image::haar: the signature stored in a row.                             *)
Image_haar(image) ==
    [ avglf |-> [c \in Colors |->
                    IF c = 0 THEN image.avglf1
                    ELSE IF c = 1 THEN image.avglf2 ELSE image.avglf3],
      sig   |-> image.sig ]

(* SqliteDB::getImage: the row of post_id when there is exactly one.       *)
SqliteDB_getImage(rows, post_id) ==
    LET results == SelectSeq(rows, LAMBDA r : r.post_id = post_id)
    IN  IF Len(results) = 1 THEN <<results[1]>> ELSE NullOpt

(* SqliteDB::removeImage: remove_all where post_id matches.                *)
SqliteDB_removeImage(rows, post_id) ==
    SelectSeq(rows, LAMBDA r : r.post_id # post_id)

(* SqliteDB::addImage: one transaction, removeImage then replace; the new  *)
(* row takes the next rowid.                                               *)
SqliteDB_addImage(rows, post_id, signature) ==
    LET image == [ post_id |-> post_id,
                   avglf1  |-> signature.avglf[0],
                   avglf2  |-> signature.avglf[1],
                   avglf3  |-> signature.avglf[2],
                   sig     |-> signature.sig ]
    IN  Append(SqliteDB_removeImage(rows, post_id), image)

----------------------------------------------------------------------------
(* IQDB.  An object is the record of its members; storage is the database  *)
(* file behind sqlite_db_.                                                 *)

EmptyInfo == [i \in {} |-> 0]

(* IQDB::isDeleted: the tombstone is a zero first DC average.              *)
isDeleted(info, iqdb_id) == info[iqdb_id].avgl[0] = 0

(* IQDB::getImgCount                                                       *)
getImgCount(st) == st.img_count

(* Variant: the id is pushed into the buckets and counted, and no entry is *)
(* made in m_info.                                                         *)
IQDB_addImageInMemory_noInfo(st, post_id, haar) ==
    [st EXCEPT
        !.imgbuckets = bucket_set_add(@, haar, post_id),
        !.img_count  = @ + 1]

(* IQDB::addImageInMemory.  std::map::emplace inserts only when the key is *)
(* absent: an existing entry is left as it is.                             *)
IQDB_addImageInMemory(st, post_id, haar) ==
    LET info == [ id   |-> post_id,
                  avgl |-> [c \in Colors |-> ToScore(haar.avglf[c])] ]
    IN  [st EXCEPT
            !.imgbuckets = bucket_set_add(@, haar, post_id),
            !.img_count  = @ + 1,
            !.m_info     = IF post_id \in DOMAIN @ THEN @
                           ELSE (post_id :> info) @@ @]

(* Variant: the counter is decremented before the row is looked up.        *)
IQDB_removeImage_countFirst(st, post_id) ==
    LET image == SqliteDB_getImage(st.storage, post_id)
    IN  IF image = NullOpt THEN [st EXCEPT !.img_count = @ - 1]
        ELSE [st EXCEPT
                !.imgbuckets = bucket_set_remove(@, Image_haar(image[1]), image[1].post_id),
                !.m_info     = [@ EXCEPT ![image[1].post_id].avgl[0] = 0],
                !.storage    = SqliteDB_removeImage(@, post_id),
                !.img_count  = @ - 1]

(* IQDB::removeImage.  m_info.at(post_id) is defined whenever the row      *)
(* exists (RowHasInfo below), so the out_of_range path is not taken.       *)
IQDB_removeImage(st, post_id) ==
    LET image == SqliteDB_getImage(st.storage, post_id)
    IN  IF image = NullOpt THEN st
        ELSE [st EXCEPT
                !.imgbuckets = bucket_set_remove(@, Image_haar(image[1]), image[1].post_id),
                !.m_info     = [@ EXCEPT ![image[1].post_id].avgl[0] = 0],
                !.storage    = SqliteDB_removeImage(@, post_id),
                !.img_count  = @ - 1]

(* Variant: the previous entry of the id is not removed first.             *)
IQDB_addImage_noRemove(st, post_id, haar) ==
    LET s2 == [st EXCEPT !.storage = SqliteDB_addImage(@, post_id, haar)]
    IN  IQDB_addImageInMemory(s2, post_id, haar)

(* IQDB::addImage                                                          *)
IQDB_addImage(st, post_id, haar) ==
    LET s1 == IQDB_removeImage(st, post_id)
        s2 == [s1 EXCEPT !.storage = SqliteDB_addImage(@, post_id, haar)]
    IN  IQDB_addImageInMemory(s2, post_id, haar)

(* The calls of the persistence adapter made by removeImage and addImage,  *)
(* each of which can end in an exception of the storage.                   *)
RemoveCalls == {"getImage", "removeImage"}
AddCalls    == RemoveCalls \cup {"addImage"}

(* IQDB::removeImage when the call `at` of the adapter throws: the         *)
(* statements before the call have run and the others have not.  Without a *)
(* row the function returns before it calls removeImage.                   *)
IQDB_removeImage_throws(st, post_id, at) ==
    LET image == SqliteDB_getImage(st.storage, post_id)
    IN  IF at = "getImage" \/ image = NullOpt THEN st
        ELSE [st EXCEPT
                !.imgbuckets = bucket_set_remove(@, Image_haar(image[1]), image[1].post_id),
                !.m_info     = [@ EXCEPT ![image[1].post_id].avgl[0] = 0]]

(* IQDB::addImage when the call `at` throws: inside removeImage, or in      *)
(* sqlite_db_->addImage after removeImage has completed; the transaction   *)
(* of the failed addImage leaves the table as removeImage left it.         *)
IQDB_addImage_throws(st, post_id, haar, at) ==
    IF at \in RemoveCalls THEN IQDB_removeImage_throws(st, post_id, at)
    ELSE IQDB_removeImage(st, post_id)

RECURSIVE EachImageAdd(_, _)
EachImageAdd(st, rows) ==
    IF rows = <<>> THEN st
    ELSE EachImageAdd(
             IQDB_addImageInMemory(st, Head(rows).post_id, Image_haar(Head(rows))),
             Tail(rows))

(* IQDB::loadDatabase: reopen the file, clear m_info and the buckets, and  *)
(* replay every row (SqliteDB::eachImage).  img_count is not assigned.     *)
IQDB_loadDatabase(st) ==
    EachImageAdd([st EXCEPT !.m_info = EmptyInfo, !.imgbuckets = bucket_set_new],
                 st.storage)

(* IQDB::IQDB: a new object on the database file; img_count starts at 0.   *)
IQDB_new(rows) ==
    IQDB_loadDatabase([ imgbuckets |-> bucket_set_new, m_info |-> EmptyInfo,
                        img_count |-> 0, storage |-> rows ])

----------------------------------------------------------------------------
(* IQDB::queryFromSignature.                                               *)

(* The keys of the local map scores after the DC baseline (one entry per   *)
(* m_info element) and the bucket sweep (scores[index] creates the entry   *)
(* of an id found in a bucket).                                            *)
ScoredIds(st, signature) ==
    DOMAIN st.m_info \cup
    UNION { Range(st.imgbuckets[b[1]][b[2]][b[3]]) :
                b \in Range(eachBucket(signature)) }

(* The weight table weights[6][3] (bin, channel) and the binning imgBin of  *)
(* the imgSeek lineage, in hundredths: Score values are modelled in exact  *)
(* fixed point.  bin 0 is the DC weight.                                   *)
weights ==
    [ w \in 0 .. 5 |->
        [ c \in Colors |->
            CASE w = 0 -> (IF c = 0 THEN 500 ELSE IF c = 1 THEN 1921 ELSE 3437)
              [] w = 1 -> (IF c = 0 THEN 83  ELSE IF c = 1 THEN 126  ELSE 36)
              [] w = 2 -> (IF c = 0 THEN 101 ELSE IF c = 1 THEN 44   ELSE 45)
              [] w = 3 -> (IF c = 0 THEN 52  ELSE IF c = 1 THEN 53   ELSE 14)
              [] w = 4 -> (IF c = 0 THEN 47  ELSE IF c = 1 THEN 28   ELSE 18)
              [] OTHER -> (IF c = 0 THEN 30  ELSE IF c = 1 THEN 14   ELSE 27) ] ]

(* imgBin.bin[i]: min(max(row, column), 5) of position i in the 128-wide    *)
(* plane.                                                                  *)
imgBin(i) ==
    LET row == i \div 128
        col == i % 128
        m   == IF row > col THEN row ELSE col
    IN  IF m > 5 THEN 5 ELSE m

RECURSIVE LuminanceFrom(_, _, _, _)
LuminanceFrom(avgl, signature, c, s) ==
    IF c >= num_colors(signature) THEN s
    ELSE LuminanceFrom(avgl, signature, c + 1,
             s + weights[0][c] * abs(avgl[c] - ToScore(signature.avglf[c])))

(* The first loop of queryFromSignature: one entry of scores per element   *)
(* of m_info, deleted or not.                                              *)
DCBaseline(info, signature) ==
    [ id \in DOMAIN info |-> LuminanceFrom(info[id].avgl, signature, 0, 0) ]

(* scores[index] -= weight; operator[] of std::map starts a new entry at 0.*)
RECURSIVE SubtractEach(_, _, _)
SubtractEach(scores, bucket, weight) ==
    IF bucket = <<>> THEN scores
    ELSE LET index == Head(bucket)
             old   == IF index \in DOMAIN scores THEN scores[index] ELSE 0
         IN  SubtractEach((index :> (old - weight)) @@ scores, Tail(bucket), weight)

(* Variant: an empty bucket is not skipped, its weight goes into scale.    *)
SweepBucket_noSkip(acc, bucket, c, coef) ==
    LET weight == weights[imgBin(abs(coef))][c]
    IN  [ scores |-> SubtractEach(acc.scores, bucket, weight),
          scale  |-> acc.scale - weight ]

(* The body of the sweep for one coefficient of the query.                 *)
SweepBucket(acc, bucket, c, coef) ==
    IF bucket = <<>> THEN acc
    ELSE LET weight == weights[imgBin(abs(coef))][c]
         IN  [ scores |-> SubtractEach(acc.scores, bucket, weight),
               scale  |-> acc.scale - weight ]

RECURSIVE SweepFrom(_, _, _, _)
SweepFrom(bs, signature, k, acc) ==
    IF k >= num_colors(signature) * NumCoefs THEN acc
    ELSE LET c    == k \div NumCoefs
             b    == k % NumCoefs
             coef == signature.sig[c][b]
             at   == bucket_set_at(c, coef)
         IN  SweepFrom(bs, signature, k + 1,
                       SweepBucket(acc, bs[at[1]][at[2]][at[3]], c, coef))

(* scores and scale when the two loops of queryFromSignature are done.     *)
RawScores(st, signature) ==
    SweepFrom(st.imgbuckets, signature, 0,
              [ scores |-> DCBaseline(st.m_info, signature), scale |-> 0 ])

RECURSIVE SetToSeq(_)
SetToSeq(S) ==
    IF S = {} THEN <<>>
    ELSE LET x == CHOOSE y \in S : TRUE
         IN  <<x>> \o SetToSeq(S \ {x})

Min(a, b) == IF a <= b THEN a ELSE b

SimValues(ids) == [k \in DOMAIN ids |-> [id |-> ids[k], score |-> 0]]

(* Variant: the selection is active but does not skip deleted ids.         *)
TopResults_unfiltered(candidates, info, numres) ==
    LET all == SetToSeq(candidates)
    IN  SimValues(SubSeq(all, 1, Min(numres, Len(all))))

(* Variant: the selection is active but is not bounded by numres.          *)
TopResults_unbounded(candidates, info, numres) ==
    SimValues(SetToSeq({ id \in candidates \cap DOMAIN info : ~isDeleted(info, id) }))

(* The fill of pqResults and its drain into V (imgdb.cpp 182-210) are      *)
(* inside a comment: nothing is pushed, whatever was scored.               *)
TopResults(candidates, info, numres) == <<>>

queryFromSignature(st, signature, numres) ==
    Reverse(TopResults(ScoredIds(st, signature), st.m_info, numres))

(* The loop of the /query handler over matches: a match without a row is   *)
(* logged and skipped.                                                     *)
QueryResponse(st, matches) ==
    LET found == SelectSeq(matches,
                     LAMBDA m : SqliteDB_getImage(st.storage, m.id) # NullOpt)
    IN  [ k \in DOMAIN found |-> [ post_id |-> found[k].id, score |-> found[k].score ] ]

----------------------------------------------------------------------------
(* The state machine: one IQDB object on one database file.  call records  *)
(* the last operation and its arguments; V is the last query result.       *)

State ==
    [ imgbuckets |-> imgbuckets, m_info |-> m_info,
      img_count |-> img_count, storage |-> storage ]

Becomes(st) ==
    /\ imgbuckets' = st.imgbuckets
    /\ m_info' = st.m_info
    /\ img_count' = st.img_count
    /\ storage' = st.storage

(* warned: removeImage logged "couldn't remove post" (imgdb.cpp 219).       *)
Call(op, id, numres, warned) ==
    [op |-> op, id |-> id, numres |-> numres, warned |-> warned]

NoId == ""

NoThread == ""

(* A worker without a request; the fields are the handler's locals.        *)
Idle ==
    [ pc |-> "idle", kind |-> "", post_id |-> NoId, haar |-> <<>>,
      image |-> NullOpt, k |-> 0, pre |-> <<>>, acc |-> <<>>, data |-> <<>>,
      status |-> 0 ]

Init ==
    /\ th = [t \in Threads |-> Idle]
    /\ mutex_ = [owner |-> NoThread, shared |-> {}]
    /\ srv = "starting"
    /\ sigterm = FALSE
    /\ sql_mutex_ = NoThread
    /\ imgbuckets = IQDB_new(<<>>).imgbuckets
    /\ m_info = IQDB_new(<<>>).m_info
    /\ img_count = IQDB_new(<<>>).img_count
    /\ storage = <<>>
    /\ V = <<>>
    /\ call = Call("IQDB", NoId, 0, FALSE)

(* POST /images/:post_id -> IQDB::addImage                                 *)
AddImage(post_id, haar) ==
    /\ LET st == IQDB_addImage(State, post_id, haar)
       IN  st.img_count <= MaxImgCount /\ Becomes(st)
    /\ call' = Call("addImage", post_id, 0,
                    SqliteDB_getImage(storage, post_id) = NullOpt)
    /\ UNCHANGED <<V, svars>>

(* DELETE /images/:post_id -> IQDB::removeImage                            *)
RemoveImage(post_id) ==
    /\ LET st == IQDB_removeImage(State, post_id)
       IN  Becomes(st)
    /\ call' = Call("removeImage", post_id, 0,
                    SqliteDB_getImage(storage, post_id) = NullOpt)
    /\ UNCHANGED <<V, svars>>

(* IQDB::loadDatabase called again on the same object and file.            *)
LoadDatabase ==
    /\ LET st == IQDB_loadDatabase(State)
       IN  st.img_count <= MaxImgCount /\ Becomes(st)
    /\ call' = Call("loadDatabase", NoId, 0, FALSE)
    /\ UNCHANGED <<V, svars>>

(* The process stops and http_server builds a new IQDB on the same file.   *)
Restart ==
    /\ LET st == IQDB_new(storage)
       IN  Becomes(st)
    /\ call' = Call("IQDB", NoId, 0, FALSE)
    /\ UNCHANGED <<V, svars>>

(* POST /query -> IQDB::queryFromSignature                                 *)
Query(signature, numres) ==
    /\ V' = queryFromSignature(State, signature, numres)
    /\ call' = Call("queryFromSignature", NoId, numres, FALSE)
    /\ UNCHANGED <<imgbuckets, m_info, img_count, storage, svars>>

Next ==
    \/ \E post_id \in Ids, haar \in SigPool : AddImage(post_id, haar)
    \/ \E post_id \in Ids : RemoveImage(post_id)
    \/ LoadDatabase
    \/ Restart
    \/ \E signature \in SigPool, numres \in 0 .. MaxRes : Query(signature, numres)

Spec == Init /\ [][Next]_vars

(* The process from its start to its end: no second loadDatabase on the    *)
(* object, but restarts on the same file.                                  *)
NextNoReload ==
    \/ \E post_id \in Ids, haar \in SigPool : AddImage(post_id, haar)
    \/ \E post_id \in Ids : RemoveImage(post_id)
    \/ Restart
    \/ \E signature \in SigPool, numres \in 0 .. MaxRes : Query(signature, numres)

SpecNoReload == Init /\ [][NextNoReload]_vars

(* POST /images/:post_id when a call of the adapter throws: the exception  *)
(* handler answers 500 and the server goes on.                             *)
AddImageThrows(post_id, haar, at) ==
    /\ at = "removeImage" => SqliteDB_getImage(storage, post_id) # NullOpt
    /\ LET st == IQDB_addImage_throws(State, post_id, haar, at)
       IN  Becomes(st)
    /\ call' = Call("addImage throws", post_id, 0,
                    SqliteDB_getImage(storage, post_id) = NullOpt)
    /\ UNCHANGED <<V, svars>>

(* DELETE /images/:post_id when a call of the adapter throws.              *)
RemoveImageThrows(post_id, at) ==
    /\ at = "removeImage" => SqliteDB_getImage(storage, post_id) # NullOpt
    /\ LET st == IQDB_removeImage_throws(State, post_id, at)
       IN  Becomes(st)
    /\ call' = Call("removeImage throws", post_id, 0,
                    SqliteDB_getImage(storage, post_id) = NullOpt)
    /\ UNCHANGED <<V, svars>>

(* The process with a storage that can fail.                               *)
NextFaults ==
    \/ \E post_id \in Ids, haar \in SigPool : AddImage(post_id, haar)
    \/ \E post_id \in Ids : RemoveImage(post_id)
    \/ Restart
    \/ \E post_id \in Ids, haar \in SigPool, at \in AddCalls :
          AddImageThrows(post_id, haar, at)
    \/ \E post_id \in Ids, at \in RemoveCalls : RemoveImageThrows(post_id, at)

SpecFaults == Init /\ [][NextFaults]_vars

----------------------------------------------------------------------------
(* http_server: the handlers run on worker threads, each under a lock on   *)
(* mutex_; a handler is a sequence of steps on the members of the IQDB.    *)

ReadKinds  == {"get_image", "query", "status"}
WriteKinds == {"add", "remove"}
Kinds      == ReadKinds \cup WriteKinds

(* Variant: DELETE /images/:post_id takes the lock in shared mode.         *)
LockMode_removeShared(kind) ==
    IF kind \in {"query", "status", "remove"} THEN "shared" ELSE "unique"

(* Variant: POST /images/:post_id takes the lock in shared mode.           *)
LockMode_addShared(kind) ==
    IF kind \in {"query", "status", "add"} THEN "shared" ELSE "unique"

(* The lock declared in the first line of each handler: std::shared_lock   *)
(* in POST /query and GET /status, std::unique_lock in the other three.    *)
LockMode(kind) ==
    IF kind \in {"query", "status"} THEN "shared" ELSE "unique"

(* The signatures and ids that requests carry.                             *)
RequestSigs == { s \in SigPool : s.avglf[0] <= 1 /\ s.sig[0][0] = 1 }

SIGINT  == 2
SIGSEGV == 11
SIGTERM == 15
Signals == {SIGINT, SIGTERM, SIGSEGV}

Serving == srv \in {"running", "stopping"}

At(t, pc) == Serving /\ th[t].pc = pc

Goto(t, r) == th' = [th EXCEPT ![t] = r]

(* A connection is accepted and handed to a worker; the handler starts     *)
(* with the declaration of its lock.                                       *)
Arrive(t, kind) ==
    /\ srv = "running"
    /\ th[t].pc = "idle"
    /\ Goto(t, [Idle EXCEPT !.pc = "lock", !.kind = kind])
    /\ UNCHANGED <<imgbuckets, m_info, img_count, storage, V, call,
                   mutex_, srv, sigterm, sql_mutex_>>

(* std::unique_lock lock(mutex_)                                           *)
LockUnique(t) ==
    /\ At(t, "lock")
    /\ LockMode(th[t].kind) = "unique"
    /\ mutex_.owner = NoThread /\ mutex_.shared = {}
    /\ mutex_' = [mutex_ EXCEPT !.owner = t]
    /\ Goto(t, [th[t] EXCEPT !.pc = "handler"])
    /\ UNCHANGED <<imgbuckets, m_info, img_count, storage, V, call,
                   srv, sigterm, sql_mutex_>>

(* std::shared_lock lock(mutex_)                                           *)
LockShared(t) ==
    /\ At(t, "lock")
    /\ LockMode(th[t].kind) = "shared"
    /\ mutex_.owner = NoThread
    /\ mutex_' = [mutex_ EXCEPT !.shared = @ \cup {t}]
    /\ Goto(t, [th[t] EXCEPT !.pc = "handler"])
    /\ UNCHANGED <<imgbuckets, m_info, img_count, storage, V, call,
                   srv, sigterm, sql_mutex_>>

(* The destructor of the lock, on return and on unwinding alike.           *)
Unlock(t) ==
    /\ At(t, "done")
    /\ mutex_' = [ owner  |-> IF mutex_.owner = t THEN NoThread ELSE mutex_.owner,
                   shared |-> mutex_.shared \ {t} ]
    /\ Goto(t, Idle)
    /\ UNCHANGED <<imgbuckets, m_info, img_count, storage, V, call,
                   srv, sigterm, sql_mutex_>>

(* POST /images and POST /query without their parameter: throw param_error.*)
ParamError(t) ==
    /\ At(t, "handler")
    /\ th[t].kind \in {"add", "query"}
    /\ Goto(t, [th[t] EXCEPT !.pc = "done", !.status = 500])
    /\ UNCHANGED <<imgbuckets, m_info, img_count, storage, V, call,
                   mutex_, srv, sigterm, sql_mutex_>>

(* GET /images/:post_id                                                    *)
GetImage(t, post_id) ==
    /\ At(t, "handler")
    /\ th[t].kind = "get_image"
    /\ LET image == SqliteDB_getImage(storage, post_id)
       IN  Goto(t, [th[t] EXCEPT !.pc = "done", !.post_id = post_id, !.data = image,
                                 !.status = IF image = NullOpt THEN 404 ELSE 200])
    /\ UNCHANGED <<imgbuckets, m_info, img_count, storage, V, call,
                   mutex_, srv, sigterm, sql_mutex_>>

(* GET /status                                                             *)
Status(t) ==
    /\ At(t, "handler")
    /\ th[t].kind = "status"
    /\ Goto(t, [th[t] EXCEPT !.pc = "done", !.data = <<getImgCount(State)>>,
                             !.status = 200])
    /\ UNCHANGED <<imgbuckets, m_info, img_count, storage, V, call,
                   mutex_, srv, sigterm, sql_mutex_>>

(* POST /images/:post_id with a file: IQDB::addImage starts with           *)
(* removeImage(post_id).                                                   *)
PostImage(t, post_id, haar) ==
    /\ At(t, "handler")
    /\ th[t].kind = "add"
    /\ Goto(t, [th[t] EXCEPT !.pc = "rm_get", !.post_id = post_id, !.haar = haar,
                             !.pre = State])
    /\ UNCHANGED <<imgbuckets, m_info, img_count, storage, V, call,
                   mutex_, srv, sigterm, sql_mutex_>>

(* DELETE /images/:post_id                                                 *)
DeleteImage(t, post_id) ==
    /\ At(t, "handler")
    /\ th[t].kind = "remove"
    /\ Goto(t, [th[t] EXCEPT !.pc = "rm_get", !.post_id = post_id, !.pre = State])
    /\ UNCHANGED <<imgbuckets, m_info, img_count, storage, V, call,
                   mutex_, srv, sigterm, sql_mutex_>>

(* Where IQDB::removeImage returns to.                                     *)
AfterRemove(t) == IF th[t].kind = "add" THEN "db_add" ELSE "done"

(* IQDB::removeImage: getImage and the early return.                       *)
RemoveGet(t) ==
    /\ At(t, "rm_get")
    /\ LET image == SqliteDB_getImage(storage, th[t].post_id)
       IN  Goto(t, IF image = NullOpt
                   THEN [th[t] EXCEPT !.pc = AfterRemove(t), !.status = 200]
                   ELSE [th[t] EXCEPT !.pc = "rm_bucket", !.image = image, !.k = 1])
    /\ UNCHANGED <<imgbuckets, m_info, img_count, storage, V, call,
                   mutex_, srv, sigterm, sql_mutex_>>

(* imgbuckets.remove: the erase in the k-th bucket of the signature.       *)
RemoveBucket(t) ==
    /\ At(t, "rm_bucket")
    /\ LET path == eachBucket(Image_haar(th[t].image[1]))
           b    == path[th[t].k]
       IN  /\ imgbuckets' = EraseAll(imgbuckets, <<b>>, th[t].image[1].post_id)
           /\ Goto(t, IF th[t].k < Len(path)
                      THEN [th[t] EXCEPT !.k = @ + 1]
                      ELSE [th[t] EXCEPT !.pc = "rm_info", !.k = 0])
    /\ UNCHANGED <<m_info, img_count, storage, V, call, mutex_,
                   srv, sigterm, sql_mutex_>>

(* m_info.at(image->post_id).avgl.v[0] = 0; at throws std::out_of_range    *)
(* when the id has no entry.                                               *)
RemoveInfo(t) ==
    /\ At(t, "rm_info")
    /\ LET id == th[t].image[1].post_id
       IN  IF id \in DOMAIN m_info
           THEN /\ m_info' = [m_info EXCEPT ![id].avgl[0] = 0]
                /\ Goto(t, [th[t] EXCEPT !.pc = "rm_db"])
           ELSE /\ m_info' = m_info
                /\ Goto(t, [th[t] EXCEPT !.pc = "done", !.status = 500])
    /\ UNCHANGED <<imgbuckets, img_count, storage, V, call, mutex_,
                   srv, sigterm, sql_mutex_>>

(* sqlite_db_->removeImage(post_id)                                        *)
RemoveRow(t) ==
    /\ At(t, "rm_db")
    /\ storage' = SqliteDB_removeImage(storage, th[t].post_id)
    /\ Goto(t, [th[t] EXCEPT !.pc = "rm_count"])
    /\ UNCHANGED <<imgbuckets, m_info, img_count, V, call, mutex_,
                   srv, sigterm, sql_mutex_>>

(* --img_count                                                             *)
RemoveCount(t) ==
    /\ At(t, "rm_count")
    /\ img_count' = img_count - 1
    /\ Goto(t, [th[t] EXCEPT !.pc = AfterRemove(t), !.status = 200])
    /\ UNCHANGED <<imgbuckets, m_info, storage, V, call, mutex_,
                   srv, sigterm, sql_mutex_>>

(* sqlite_db_->addImage(post_id, haar)                                     *)
AddRow(t) ==
    /\ At(t, "db_add")
    /\ storage' = SqliteDB_addImage(storage, th[t].post_id, th[t].haar)
    /\ Goto(t, [th[t] EXCEPT !.pc = "add_bucket", !.k = 1])
    /\ UNCHANGED <<imgbuckets, m_info, img_count, V, call, mutex_,
                   srv, sigterm, sql_mutex_>>

(* imgbuckets.add: the push_back in the k-th bucket of the signature.      *)
AddBucket(t) ==
    /\ At(t, "add_bucket")
    /\ LET path == eachBucket(th[t].haar)
           b    == path[th[t].k]
       IN  /\ imgbuckets' = PushBackAll(imgbuckets, <<b>>, th[t].post_id)
           /\ Goto(t, IF th[t].k < Len(path)
                      THEN [th[t] EXCEPT !.k = @ + 1]
                      ELSE [th[t] EXCEPT !.pc = "add_count", !.k = 0])
    /\ UNCHANGED <<m_info, img_count, storage, V, call, mutex_,
                   srv, sigterm, sql_mutex_>>

(* img_count++                                                             *)
AddCount(t) ==
    /\ At(t, "add_count")
    /\ img_count' = img_count + 1
    /\ Goto(t, [th[t] EXCEPT !.pc = "add_info"])
    /\ UNCHANGED <<imgbuckets, m_info, storage, V, call, mutex_,
                   srv, sigterm, sql_mutex_>>

(* m_info.emplace(post_id, info)                                           *)
AddInfo(t) ==
    /\ At(t, "add_info")
    /\ LET post_id == th[t].post_id
           info    == [ id   |-> post_id,
                        avgl |-> [c \in Colors |-> ToScore(th[t].haar.avglf[c])] ]
       IN  m_info' = IF post_id \in DOMAIN m_info THEN m_info
                     ELSE (post_id :> info) @@ m_info
    /\ Goto(t, [th[t] EXCEPT !.pc = "done", !.status = 200])
    /\ UNCHANGED <<imgbuckets, img_count, storage, V, call, mutex_,
                   srv, sigterm, sql_mutex_>>

(* POST /query with a hash or a file: queryFromSignature, its first loop   *)
(* over m_info.                                                            *)
QueryDC(t, signature) ==
    /\ At(t, "handler")
    /\ th[t].kind = "query"
    /\ Goto(t, [th[t] EXCEPT !.pc = "q_sweep", !.haar = signature, !.pre = State,
                             !.k = 0,
                             !.acc = [ scores |-> DCBaseline(m_info, signature),
                                       scale  |-> 0 ]])
    /\ UNCHANGED <<imgbuckets, m_info, img_count, storage, V, call,
                   mutex_, srv, sigterm, sql_mutex_>>

(* Variant: the sweep erases from the bucket it visits the ids that are    *)
(* marked deleted.                                                         *)
QuerySweep_pruning(t) ==
    /\ At(t, "q_sweep")
    /\ LET k    == th[t].k
           c    == k \div NumCoefs
           coef == th[t].haar.sig[c][k % NumCoefs]
           at   == bucket_set_at(c, coef)
           acc  == SweepBucket(th[t].acc, imgbuckets[at[1]][at[2]][at[3]], c, coef)
       IN  /\ imgbuckets' = [imgbuckets EXCEPT ![at[1]][at[2]][at[3]] =
                                SelectSeq(@, LAMBDA x : ~isDeleted(m_info, x))]
           /\ Goto(t, IF k + 1 < num_colors(th[t].haar) * NumCoefs
                      THEN [th[t] EXCEPT !.k = k + 1, !.acc = acc]
                      ELSE [th[t] EXCEPT !.pc = "q_select", !.k = 0, !.acc = acc])
    /\ UNCHANGED <<m_info, img_count, storage, V, call,
                   mutex_, srv, sigterm, sql_mutex_>>

(* queryFromSignature: the k-th coefficient of the sweep.                  *)
QuerySweep(t) ==
    /\ At(t, "q_sweep")
    /\ LET k    == th[t].k
           c    == k \div NumCoefs
           coef == th[t].haar.sig[c][k % NumCoefs]
           at   == bucket_set_at(c, coef)
           acc  == SweepBucket(th[t].acc, imgbuckets[at[1]][at[2]][at[3]], c, coef)
       IN  Goto(t, IF k + 1 < num_colors(th[t].haar) * NumCoefs
                   THEN [th[t] EXCEPT !.k = k + 1, !.acc = acc]
                   ELSE [th[t] EXCEPT !.pc = "q_select", !.k = 0, !.acc = acc])
    /\ UNCHANGED <<imgbuckets, m_info, img_count, storage, V, call,
                   mutex_, srv, sigterm, sql_mutex_>>

(* queryFromSignature returns V; the handler looks every match up.         *)
QuerySelect(t, limit) ==
    /\ At(t, "q_select")
    /\ LET matches == Reverse(TopResults(DOMAIN th[t].acc.scores, m_info, limit))
       IN  Goto(t, [th[t] EXCEPT !.pc = "done", !.status = 200,
                                 !.data = QueryResponse(State, matches)])
    /\ UNCHANGED <<imgbuckets, m_info, img_count, storage, V, call,
                   mutex_, srv, sigterm, sql_mutex_>>

(* server.listen(host, port)                                               *)
Listen ==
    /\ srv = "starting"
    /\ srv' = "running"
    /\ UNCHANGED <<imgbuckets, m_info, img_count, storage, V, call,
                   th, mutex_, sigterm, sql_mutex_>>

(* signal_handler: exit(1) on SIGSEGV, which ends the process and its      *)
(* threads; else stop the server if it runs.                               *)
Signal(signal) ==
    /\ srv \in {"starting", "running", "stopping"}
    /\ IF signal = SIGSEGV
       THEN /\ srv' = "exit1"
            /\ th' = [t \in Threads |-> Idle]
            /\ mutex_' = [owner |-> NoThread, shared |-> {}]
            /\ sigterm' = sigterm
       ELSE /\ srv' = IF srv = "running" THEN "stopping" ELSE srv
            /\ sigterm' = TRUE
            /\ UNCHANGED <<th, mutex_>>
    /\ UNCHANGED <<imgbuckets, m_info, img_count, storage, V, call, sql_mutex_>>

(* listen returns when the server was stopped and the workers are done.    *)
ListenReturns ==
    /\ srv = "stopping"
    /\ \A t \in Threads : th[t].pc = "idle"
    /\ srv' = "stopped"
    /\ UNCHANGED <<imgbuckets, m_info, img_count, storage, V, call,
                   th, mutex_, sigterm, sql_mutex_>>

(* The steps of worker t inside a handler.                                 *)
HandlerStep(t) ==
    \/ ParamError(t)
    \/ \E post_id \in Ids : GetImage(t, post_id)
    \/ Status(t)
    \/ \E post_id \in Ids, haar \in RequestSigs : PostImage(t, post_id, haar)
    \/ \E post_id \in Ids : DeleteImage(t, post_id)
    \/ RemoveGet(t)
    \/ RemoveBucket(t)
    \/ RemoveInfo(t)
    \/ RemoveRow(t)
    \/ RemoveCount(t)
    \/ AddRow(t)
    \/ AddBucket(t)
    \/ AddCount(t)
    \/ AddInfo(t)
    \/ \E signature \in RequestSigs : QueryDC(t, signature)
    \/ QuerySweep(t)
    \/ \E limit \in {MaxRes} : QuerySelect(t, limit)

Workers == {"t1", "t2"}

(* The server while it listens: requests of every kind on two workers.     *)
NextServer ==
    \/ \E t \in Workers, kind \in Kinds : Arrive(t, kind)
    \/ \E t \in Workers : LockUnique(t)
    \/ \E t \in Workers : LockShared(t)
    \/ \E t \in Workers : HandlerStep(t)
    \/ \E t \in Workers : Unlock(t)
    \/ Listen

SpecServer == Init /\ [][NextServer]_vars

(* The server from its start to its end under signals, with clients that   *)
(* send DELETE /images/:post_id, GET /status and POST /query without its   *)
(* parameter, on three workers.                                            *)
HandlerStepLifecycle(t) ==
    \/ ParamError(t)
    \/ Status(t)
    \/ \E post_id \in Ids : DeleteImage(t, post_id)
    \/ RemoveGet(t)

NextLifecycle ==
    \/ \E t \in Threads, kind \in {"remove", "status", "query"} : Arrive(t, kind)
    \/ \E t \in Threads : LockUnique(t)
    \/ \E t \in Threads : LockShared(t)
    \/ \E t \in Threads : HandlerStepLifecycle(t)
    \/ \E t \in Threads : Unlock(t)
    \/ Listen
    \/ \E signal \in Signals : Signal(signal)
    \/ ListenReturns

(* Fair scheduling: a worker that can take a step of its handler takes it, *)
(* a worker that can take the lock again and again gets it, and listen     *)
(* starts and returns when it can.  Nothing is assumed of the clients or   *)
(* of the signals.                                                         *)
FairLifecycle ==
    /\ \A t \in Threads : WF_vars(HandlerStepLifecycle(t) \/ Unlock(t))
    /\ \A t \in Threads : SF_vars(LockUnique(t))
    /\ \A t \in Threads : SF_vars(LockShared(t))
    /\ WF_vars(Listen)
    /\ WF_vars(ListenReturns)

FairSpecServer == Init /\ [][NextLifecycle]_vars /\ FairLifecycle

----------------------------------------------------------------------------
(* SqliteDB on its own: callers that hold no lock call the four functions  *)
(* of the adapter from two threads; a step is a statement on storage_.     *)

AdapterVarsUnchanged ==
    UNCHANGED <<imgbuckets, m_info, img_count, V, call, mutex_, srv, sigterm>>

(* getImage: std::unique_lock lock(sql_mutex_)                             *)
SqlGetLock(t, post_id) ==
    /\ th[t].pc = "idle"
    /\ sql_mutex_ = NoThread
    /\ sql_mutex_' = t
    /\ Goto(t, [Idle EXCEPT !.pc = "sql_get", !.post_id = post_id])
    /\ UNCHANGED storage
    /\ AdapterVarsUnchanged

(* getImage: get_all, the return and the release of the lock.              *)
SqlGetReturn(t) ==
    /\ th[t].pc = "sql_get"
    /\ sql_mutex_' = NoThread
    /\ Goto(t, Idle)
    /\ UNCHANGED storage
    /\ AdapterVarsUnchanged

(* addImage: the transaction starts; no lock is taken.                     *)
SqlAddBegin(t, post_id, signature) ==
    /\ th[t].pc = "idle"
    /\ Goto(t, [Idle EXCEPT !.pc = "sql_add_remove", !.post_id = post_id,
                            !.haar = signature])
    /\ UNCHANGED <<storage, sql_mutex_>>
    /\ AdapterVarsUnchanged

(* addImage: removeImage(post_id) inside the transaction.                  *)
SqlAddRemove(t) ==
    /\ th[t].pc = "sql_add_remove"
    /\ storage' = SqliteDB_removeImage(storage, th[t].post_id)
    /\ Goto(t, [th[t] EXCEPT !.pc = "sql_add_replace"])
    /\ UNCHANGED sql_mutex_
    /\ AdapterVarsUnchanged

(* addImage: storage_.replace(image), which takes the place of a row with  *)
(* the same primary key, and the commit.                                   *)
SqlAddReplace(t) ==
    /\ th[t].pc = "sql_add_replace"
    /\ storage' = SqliteDB_addImage(storage, th[t].post_id, th[t].haar)
    /\ Goto(t, Idle)
    /\ UNCHANGED sql_mutex_
    /\ AdapterVarsUnchanged

(* removeImage is entered; no lock is taken.                               *)
SqlRemoveBegin(t, post_id) ==
    /\ th[t].pc = "idle"
    /\ Goto(t, [Idle EXCEPT !.pc = "sql_remove", !.post_id = post_id])
    /\ UNCHANGED <<storage, sql_mutex_>>
    /\ AdapterVarsUnchanged

(* removeImage: remove_all and the return.                                 *)
SqlRemove(t) ==
    /\ th[t].pc = "sql_remove"
    /\ storage' = SqliteDB_removeImage(storage, th[t].post_id)
    /\ Goto(t, Idle)
    /\ UNCHANGED sql_mutex_
    /\ AdapterVarsUnchanged

(* eachImage: the iteration starts; no lock is taken.                      *)
SqlEachBegin(t) ==
    /\ th[t].pc = "idle"
    /\ Goto(t, [Idle EXCEPT !.pc = "sql_each", !.k = 0])
    /\ UNCHANGED <<storage, sql_mutex_>>
    /\ AdapterVarsUnchanged

(* eachImage: func(image) on the next row, or the end of the iteration.    *)
SqlEachNext(t) ==
    /\ th[t].pc = "sql_each"
    /\ Goto(t, IF th[t].k < Len(storage)
               THEN [th[t] EXCEPT !.k = @ + 1]
               ELSE Idle)
    /\ UNCHANGED <<storage, sql_mutex_>>
    /\ AdapterVarsUnchanged

NextAdapter ==
    \/ \E t \in Workers, post_id \in Ids : SqlGetLock(t, post_id)
    \/ \E t \in Workers : SqlGetReturn(t)
    \/ \E t \in Workers, post_id \in Ids, signature \in RequestSigs :
          SqlAddBegin(t, post_id, signature)
    \/ \E t \in Workers : SqlAddRemove(t)
    \/ \E t \in Workers : SqlAddReplace(t)
    \/ \E t \in Workers, post_id \in Ids : SqlRemoveBegin(t, post_id)
    \/ \E t \in Workers : SqlRemove(t)
    \/ \E t \in Workers : SqlEachBegin(t)
    \/ \E t \in Workers : SqlEachNext(t)

SpecAdapter == Init /\ [][NextAdapter]_vars

----------------------------------------------------------------------------
(* Well-formedness of the state.                                           *)

AllBuckets == Colors \X (0 .. 1) \X (0 .. MaxCoef)

Bucket(b) == imgbuckets[b[1]][b[2]][b[3]]

(* The number of bucket entries (with multiplicity) that reference id.     *)
BucketEntries(id) ==
    Cardinality({ <<b, k>> \in AllBuckets \X (1 .. 2 * Cardinality(Ids)) :
                    k <= Len(Bucket(b)) /\ Bucket(b)[k] = id })

BucketsOf(id) == { b \in AllBuckets : id \in Range(Bucket(b)) }

SigBuckets(sig) == Range(eachBucket(sig))

Rows == Range(storage)

RowIds == { r.post_id : r \in Rows }

TypeOK ==
    /\ img_count \in 0 .. MaxImgCount
    /\ DOMAIN m_info \subseteq Ids
    /\ \A b \in AllBuckets : Len(Bucket(b)) <= 2 * Cardinality(Ids)
    /\ \A r \in Rows : r.post_id \in Ids /\ Image_haar(r) \in SigPool

(* removeImage reads m_info.at(post_id) only for ids that have a row.      *)
RowHasInfo == RowIds \subseteq DOMAIN m_info

----------------------------------------------------------------------------
(* Vocabulary of the properties.                                           *)

K3 == NumColors * NumCoefs

LiveIds == { id \in DOMAIN m_info : ~isDeleted(m_info, id) }

ResultIds(res) == { res[k].id : k \in DOMAIN res }

NonDecreasing(res) ==
    \A i, j \in DOMAIN res : i <= j => res[i].score <= res[j].score

RowOf(id) == SqliteDB_getImage(storage, id)[1]

(* C1: every id whose info entry is not deleted is referenced by exactly   *)
(* 3*K bucket entries, and no bucket holds an id whose info entry is       *)
(* marked deleted.                                                         *)
C1_IndexInfoConsistent ==
    /\ \A id \in LiveIds : BucketEntries(id) = K3
    /\ \A b \in AllBuckets : \A id \in Range(Bucket(b)) :
          id \in DOMAIN m_info => ~isDeleted(m_info, id)

(* C2: img_count equals the number of info entries not marked deleted.     *)
C2_CountIsLive == getImgCount(State) = Cardinality(LiveIds)

(* C3: for every ingested, not removed id, a query with its own signature  *)
(* and a result count of at least 1 returns a list that starts with it.    *)
C3_SelfQueryTop ==
    \A id \in RowIds : \A numres \in 1 .. MaxRes :
        LET res == queryFromSignature(State, Image_haar(RowOf(id)), numres)
        IN  res # <<>> /\ res[1].id = id

(* C4: no query result, for any signature and result count, contains an id *)
(* that was removed and not added again (an id without a row); the result  *)
(* just returned by a query is such a result.                              *)
C4_NoRemovedInResults ==
    /\ \A signature \in SigPool : \A numres \in 0 .. MaxRes :
          ResultIds(queryFromSignature(State, signature, numres)) \subseteq RowIds
    /\ call.op = "queryFromSignature" => ResultIds(V) \subseteq RowIds

C4_Witness ==
    /\ call.op = "queryFromSignature"
    /\ call.numres >= 1
    /\ \E id \in DOMAIN m_info : id \notin RowIds /\ isDeleted(m_info, id)
    /\ RowIds # {}

(* The state that addImage(id, Y) is to leave, Y being the row of id.      *)
C5_Replaced(id) ==
    LET Y == Image_haar(RowOf(id))
    IN  /\ img_count = Cardinality(RowIds)
        /\ BucketsOf(id) = SigBuckets(Y)
        /\ BucketEntries(id) = K3
        /\ id \in DOMAIN m_info
        /\ ~isDeleted(m_info, id)
        /\ m_info[id].avgl = [c \in Colors |-> ToScore(Y.avglf[c])]

(* C5: ingest replaces.  After addImage(id, Y) on an id that had a row     *)
(* with another signature, or that was removed earlier, img_count counts   *)
(* id once, id is in exactly the buckets of Y, and its info entry is not   *)
(* deleted and carries the DC averages of Y.                               *)
C5_IngestReplaces ==
    [][ \A id \in Ids :
          ( /\ call'.op = "addImage"
            /\ call'.id = id
            /\ id \in DOMAIN m_info
            /\ (id \in RowIds => RowOf(id) # RowOf(id)') )
          => C5_Replaced(id)' ]_vars

(* C6: a second loadDatabase on the same object, right after a first one   *)
(* (the constructor's or an explicit one), leaves the buckets, the info    *)
(* table and img_count as they were.                                       *)
C6_LoadIdempotent ==
    [][ (call.op \in {"IQDB", "loadDatabase"} /\ call'.op = "loadDatabase")
          => UNCHANGED <<imgbuckets, m_info, img_count>> ]_vars

(* C7: when loadDatabase completes, img_count is the number of rows.       *)
C7_LoadCountsRows == call.op = "loadDatabase" => img_count = Len(storage)

(* What a client can observe of the images that are not deleted.          *)
LiveState ==
    [ ids       |-> LiveIds,
      buckets   |-> [id \in LiveIds |-> BucketsOf(id)],
      avgl      |-> [id \in LiveIds |-> m_info[id].avgl],
      img_count |-> img_count ]

(* C8: a new IQDB on the same file has the live state the process had:     *)
(* the same non-deleted ids, their buckets, their DC averages, img_count.  *)
C8_RestartConsistent == [][ call'.op = "IQDB" => LiveState' = LiveState ]_vars

(* C9: removeImage of an id without a row changes nothing, and removing an *)
(* id twice leaves the state that removing it once leaves.                 *)
C9_RemoveAbsentNoop ==
    [][ /\ ( call'.op = "removeImage" /\ SqliteDB_getImage(storage, call'.id) = NullOpt )
            => UNCHANGED <<imgbuckets, m_info, img_count, storage>>
        /\ \A id \in Ids :
              LET once == IQDB_removeImage(State, id)
              IN  IQDB_removeImage(once, id) = once ]_vars

(* removeImage has just missed on an id that was removed before, while     *)
(* another image is in the index.                                          *)
C9_Witness ==
    /\ call.op = "removeImage"
    /\ call.warned
    /\ call.id \in DOMAIN m_info
    /\ isDeleted(m_info, call.id)
    /\ RowIds # {}

(* C10: a query result has at most numres elements, with non-decreasing    *)
(* scores; so has the result just returned.                                *)
C10_BoundedSorted ==
    /\ \A signature \in SigPool : \A numres \in 0 .. MaxRes :
          LET res == queryFromSignature(State, signature, numres)
          IN  Len(res) <= numres /\ NonDecreasing(res)
    /\ call.op = "queryFromSignature" => (Len(V) <= call.numres /\ NonDecreasing(V))

(* A query with a result count below the number of live images returned.   *)
C10_Witness ==
    /\ call.op = "queryFromSignature"
    /\ call.numres < Cardinality(LiveIds)
    /\ Cardinality(RowIds) >= 2

----------------------------------------------------------------------------
(* Scoring and selection.                                                  *)

RECURSIVE SumOver(_, _)
SumOver(f, S) ==
    IF S = {} THEN 0
    ELSE LET x == CHOOSE y \in S : TRUE
         IN  f[x] + SumOver(f, S \ {x})

(* The coefficients (c, b) of a signature, their bucket and their weight.  *)
CoefSlots == Colors \X CoefIdx

SlotBucket(signature, slot) ==
    Bucket(bucket_set_at(slot[1], signature.sig[slot[1]][slot[2]]))

SlotWeight(signature, slot) ==
    weights[imgBin(abs(signature.sig[slot[1]][slot[2]]))][slot[1]]

CollidingWeight(id, signature) ==
    SumOver([slot \in CoefSlots |-> SlotWeight(signature, slot)],
            { slot \in CoefSlots : id \in Range(SlotBucket(signature, slot)) })

DCDistance(id, signature) ==
    SumOver([c \in Colors |->
                weights[0][c] * abs(m_info[id].avgl[c] - ToScore(signature.avglf[c]))],
            Colors)

(* C11: a query returns exactly min(numres, L) entries, L the number of    *)
(* non-deleted images, and they are non-deleted ids with the smallest raw  *)
(* scores.                                                                 *)
C11_TopN ==
    \A signature \in SigPool : \A numres \in 0 .. MaxRes :
        LET res == queryFromSignature(State, signature, numres)
            raw == RawScores(State, signature).scores
        IN  /\ Len(res) = Min(numres, Cardinality(LiveIds))
            /\ ResultIds(res) \subseteq LiveIds
            /\ \A out \in LiveIds \ ResultIds(res) : \A in \in ResultIds(res) :
                  raw[out] >= raw[in]

(* C17: after the DC baseline and the sweep, the raw score of every id of  *)
(* the info table is its weighted DC distance minus the weights of the     *)
(* query coefficients whose bucket holds the id, and scale is minus the    *)
(* weights of the query coefficients whose bucket is not empty.            *)
C17_RawScores ==
    \A signature \in SigPool :
        LET r == RawScores(State, signature)
        IN  /\ DOMAIN r.scores = ScoredIds(State, signature)
            /\ \A id \in DOMAIN m_info :
                  r.scores[id] = DCDistance(id, signature) - CollidingWeight(id, signature)
            /\ r.scale = 0 - SumOver([slot \in CoefSlots |-> SlotWeight(signature, slot)],
                                     { slot \in CoefSlots :
                                         SlotBucket(signature, slot) # <<>> })

(* A query ran on an index with a tombstoned entry and a stored image that *)
(* shares some buckets, and not all, with a signature of the pool.         *)
C17_Witness ==
    /\ call.op = "queryFromSignature"
    /\ \E id \in DOMAIN m_info : id \notin RowIds
    /\ \E r \in Rows : \E signature \in SigPool :
          /\ SigBuckets(Image_haar(r)) \cap SigBuckets(signature) # {}
          /\ ~(SigBuckets(signature) \subseteq SigBuckets(Image_haar(r)))

(* C18: with one image in the index, a query with its signature reports it *)
(* with a score of at most 0.01 (1 in hundredths); and in any result a     *)
(* lower score goes with more colliding weight.                            *)
C18_ScoreNormalization ==
    /\ (Cardinality(DOMAIN m_info) = 1 /\ RowIds = DOMAIN m_info) =>
          \A id \in RowIds : \A numres \in 1 .. MaxRes :
              LET res == queryFromSignature(State, Image_haar(RowOf(id)), numres)
              IN  \E k \in DOMAIN res : res[k].id = id /\ res[k].score <= 1
    /\ \A signature \in SigPool : \A numres \in 0 .. MaxRes :
          LET res == queryFromSignature(State, signature, numres)
          IN  \A i, j \in DOMAIN res :
                 res[i].score < res[j].score =>
                    CollidingWeight(res[i].id, signature)
                        > CollidingWeight(res[j].id, signature)

(* C19: when a scored id has no info entry or no row, the query still      *)
(* answers: the offending ids are left out of the response and every other *)
(* match (a non-deleted id with a row, numres permitting) is reported.     *)
C19_QuerySkipsOffending ==
    \A signature \in SigPool : \A numres \in 1 .. MaxRes :
        LET scored    == ScoredIds(State, signature)
            offending == { id \in scored : id \notin DOMAIN m_info \/ id \notin RowIds }
            others    == { id \in scored \ offending : ~isDeleted(m_info, id) }
            data      == QueryResponse(State,
                                       queryFromSignature(State, signature, numres))
            reported  == { data[k].post_id : k \in DOMAIN data }
        IN  offending # {} =>
               /\ reported \cap offending = {}
               /\ Cardinality(others) <= numres => others \subseteq reported

(* C20: isDeleted(id) is true exactly when id was removed and not added    *)
(* again (it has an info entry and no row).                                *)
C20_TombstoneExplicit ==
    \A id \in DOMAIN m_info : isDeleted(m_info, id) <=> id \notin RowIds

----------------------------------------------------------------------------
(* The handlers under the lock.                                            *)

InCS(t) == th[t].pc \notin {"idle", "lock"}

(* No id is half way into or out of the index.                             *)
NothingPartial ==
    \A id \in Ids :
        /\ BucketEntries(id) \in {0, K3}
        /\ BucketEntries(id) > 0 => id \in DOMAIN m_info

(* C12: a query that runs while images are added and removed reads the     *)
(* index as it was when it took the lock: no id is in a bucket without an  *)
(* info entry or with part of its 3*K bucket entries, and the scores it    *)
(* has computed are those of the query on that state.                      *)
C12_QueryReadsWholeState ==
    \A t \in Threads :
        (InCS(t) /\ th[t].kind = "query") =>
            /\ NothingPartial
            /\ th[t].pc \in {"q_sweep", "q_select"} => th[t].pre = State
            /\ th[t].pc = "q_select" => th[t].acc = RawScores(State, th[t].haar)

(* A query is in its sweep on a non-empty index while an add or a remove   *)
(* waits for the lock.                                                     *)
C12_Witness ==
    \E t, u \in Threads :
        /\ th[t].pc = "q_sweep" /\ th[t].k > 0
        /\ th[u].pc = "lock" /\ th[u].kind \in WriteKinds
        /\ RowIds # {}

(* C13: query, get_image and status hold the lock in shared mode while     *)
(* they are in their critical section.                                     *)
C13_ReadersShared ==
    \A t \in Threads :
        (InCS(t) /\ th[t].kind \in ReadKinds) =>
            (t \in mutex_.shared /\ mutex_.owner = NoThread)

(* C14: add and remove hold the lock exclusively, no other handler is in   *)
(* its critical section with them, and when they are done the state is the *)
(* one IQDB::addImage or IQDB::removeImage gives on the state found when   *)
(* the lock was taken.                                                     *)
C14_WritersExclusive ==
    \A t \in Threads :
        (InCS(t) /\ th[t].kind \in WriteKinds) =>
            /\ mutex_.owner = t /\ mutex_.shared = {}
            /\ \A u \in Threads \ {t} : ~InCS(u)
            /\ (th[t].pc = "done" /\ th[t].status = 200) =>
                  State = IF th[t].kind = "add"
                          THEN IQDB_addImage(th[t].pre, th[t].post_id, th[t].haar)
                          ELSE IQDB_removeImage(th[t].pre, th[t].post_id)

(* A remove of a stored image is done while another add or remove waits,   *)
(* after an earlier add.                                                   *)
C14_Witness ==
    \E t, u \in Threads :
        /\ th[t].pc = "done" /\ th[t].kind = "remove"
        /\ th[t].pre # State
        /\ th[u].pc = "lock" /\ th[u].kind \in WriteKinds

(* C15: under fair scheduling every request that waits for the lock gets   *)
(* it, or the process exits.                                               *)
C15_NoRequestBlocksForever ==
    \A t \in Threads : (th[t].pc = "lock") ~> (th[t].pc # "lock")

(* C16: after SIGINT or SIGTERM the server shuts down (listen returns), at *)
(* whatever time the signal came; SIGSEGV exits with code 1.               *)
C16_SignalShutsDown ==
    sigterm ~> (srv = "stopped" \/ srv = "exit1")

----------------------------------------------------------------------------
(* The buckets, the info table and the images table.                       *)

IdsInBuckets == UNION { Range(Bucket(b)) : b \in AllBuckets }

(* The number of times id is in the bucket b of the bucket set bs.         *)
Occurrences(bs, b, id) ==
    Len(SelectSeq(bs[b[1]][b[2]][b[3]], LAMBDA x : x = id))

(* C21: every id that is in a bucket has an entry in the info table.       *)
C21_BucketIdsHaveInfo == IdsInBuckets \subseteq DOMAIN m_info

(* A load has filled the buckets and the info table from two rows.         *)
C21_Witness ==
    /\ call.op = "loadDatabase"
    /\ Cardinality(IdsInBuckets) = 2

(* C23: bucket_set::add called twice for an id puts the id twice in every  *)
(* bucket of the signature; after any sequence of addImage, removeImage    *)
(* and loadDatabase no bucket holds an id more than once.                  *)
C23_NoDuplicates ==
    /\ \A signature \in SigPool : \A id \in Ids :
          LET once  == bucket_set_add(bucket_set_new, signature, id)
              twice == bucket_set_add(once, signature, id)
          IN  \A b \in SigBuckets(signature) : Occurrences(twice, b, id) = 2
    /\ \A b \in AllBuckets : \A id \in Ids : Occurrences(imgbuckets, b, id) <= 1

(* An id that had a row was added again, with another signature.           *)
C23_Witness ==
    /\ call.op = "addImage"
    /\ ~call.warned
    /\ BucketEntries(call.id) = K3
    /\ Cardinality(RowIds) = 2

(* C24: after every completed add, remove or load, the ids with a row are  *)
(* the ids in the buckets, and the buckets that hold such an id are those  *)
(* of its stored signature.                                                *)
C24_MemoryMatchesStore ==
    /\ RowIds = IdsInBuckets
    /\ \A id \in RowIds : BucketsOf(id) = SigBuckets(Image_haar(RowOf(id)))

(* A remove took a stored image out while another image stayed.            *)
C24_Witness ==
    /\ call.op = "removeImage"
    /\ ~call.warned
    /\ RowIds # {}
    /\ \E id \in DOMAIN m_info : id \notin RowIds

(* Memory and persistence agree on the ids and on the count.               *)
Agree ==
    /\ RowIds = IdsInBuckets
    /\ img_count = Cardinality(RowIds)

(* C25: when a call of the adapter throws inside addImage or removeImage,  *)
(* memory and persistence that agreed before the call agree after it: an   *)
(* id has a row exactly when it is in the buckets, and img_count is the    *)
(* number of rows.                                                         *)
C25_AgreeAfterFailure ==
    [][ (call'.op \in {"addImage throws", "removeImage throws"} /\ Agree) => Agree' ]_vars

----------------------------------------------------------------------------
(* The adapter under callers that hold no lock.                            *)

InSqlWrite(t) == th[t].pc \in {"sql_add_remove", "sql_add_replace", "sql_remove"}

InSqlRead(t) == th[t].pc \in {"sql_get", "sql_each"}

(* C22: without any lock of the caller, two writes of the adapter          *)
(* (addImage, removeImage) are never in progress at the same time, and no  *)
(* write is in progress together with a getImage or an eachImage.          *)
C22_AdapterSerializesWrites ==
    \A t, u \in Threads :
        (t # u /\ InSqlWrite(t)) => (~InSqlWrite(u) /\ ~InSqlRead(u))

----------------------------------------------------------------------------
(* The read handlers.                                                      *)

(* C26: a step of a /query, /status or GET /images handler, from the lock  *)
(* to its release, leaves the buckets, the info table, img_count and the   *)
(* images table as they are.                                               *)
C26_QueriesReadOnly ==
    [][ \A t \in Threads :
          (InCS(t) /\ th[t].kind \in ReadKinds
                   /\ (th'[t].pc # th[t].pc \/ th'[t].k # th[t].k))
             => UNCHANGED <<imgbuckets, m_info, img_count, storage>> ]_vars

(* A query has gone through its sweep on a non-empty index while another   *)
(* query is in its sweep.                                                  *)
C26_Witness ==
    \E t, u \in Threads :
        /\ th[t].pc = "q_select" /\ th[t].kind = "query"
        /\ th[u].pc = "q_sweep" /\ th[u].k > 0
        /\ IdsInBuckets # {}

====
